---- MODULE Spec2Model ----
(***************************************************************************)
(* State-machine model of plot_config.py: the module body is executed top  *)
(* to bottom when the module is imported.  It defines the parameter        *)
(* dictionaries and presets, probes the host for a LaTeX executable,       *)
(* merges the dictionaries according to the probe and applies the merged   *)
(* mapping to matplotlib's process-wide rcParams.                          *)
(*                                                                         *)
(* Python values are modelled as tagged records (kind, num, str) so that   *)
(* values of different Python types can be compared.  Floats carry their   *)
(* value in tenths.  A printed line is a sequence of text chunks; the      *)
(* decorative glyphs of the messages are left out of the chunk texts.      *)
(***************************************************************************)
EXTENDS Integers, Sequences, FiniteSets, TLC

VARIABLES
    pc,               \* position of the interpreter in the module body
    rcParams,         \* matplotlib's global rendering configuration
    base_params,      \* module global base_params
    latex_params,     \* module global latex_params
    contourLevels,    \* module global contourLevels
    colormap,         \* module global colormap
    savefig_format,   \* module global savefig_format
    SAVE_DIR,         \* module global SAVE_DIR
    result,           \* outcome of subprocess.run in check_latex_available
    LATEX_AVAILABLE,  \* module global LATEX_AVAILABLE
    params,           \* module global params
    stdout,           \* lines printed by the process so far
    warned,           \* warnings issued through warnings.warn so far
    raised,           \* exception propagating out of the import ("" if none)
    runs,             \* number of executions of the module body started
    hostWrites,       \* number of rcParams writes made by the importing program
    loads             \* flag and merged mapping of every completed load

vars == <<pc, rcParams, base_params, latex_params, contourLevels, colormap,
          savefig_format, SAVE_DIR, result, LATEX_AVAILABLE, params, stdout,
          warned, raised, runs, hostWrites, loads>>

-----------------------------------------------------------------------------
(* Bounds *)

MaxRuns == 2
MaxHostWrites == 1

-----------------------------------------------------------------------------
(* Python values *)

PyInt(n) == [kind |-> "int", num |-> n, str |-> ""]
PyFloat(tenths) == [kind |-> "float", num |-> tenths, str |-> ""]
PyBool(b) == [kind |-> "bool", num |-> IF b THEN 1 ELSE 0, str |-> ""]
PyStr(s) == [kind |-> "str", num |-> 0, str |-> s]
PyList1(s) == [kind |-> "list", num |-> 1, str |-> s]

EmptyDict == [k \in {} |-> PyInt(0)]

\* Mutant of DictMerge: the left operand is dropped, as in {**b}
DictMerge_DropsLeft(a, b) == b

\* {**a, **b}: every key of a and of b, the value of b winning on collision
DictMerge(a, b) ==
    [k \in (DOMAIN a) \cup (DOMAIN b) |-> IF k \in DOMAIN b THEN b[k] ELSE a[k]]

\* Mutant of DictUpdate: keys already present keep their value (setdefault)
DictUpdate_SetDefault(d, m) ==
    [k \in (DOMAIN d) \cup (DOMAIN m) |-> IF k \in DOMAIN d THEN d[k] ELSE m[k]]

\* d.update(m): every key of m is (over)written in d, the rest of d is kept
DictUpdate(d, m) ==
    [k \in (DOMAIN d) \cup (DOMAIN m) |-> IF k \in DOMAIN m THEN m[k] ELSE d[k]]

-----------------------------------------------------------------------------
(* Literals of the module body *)

SMALL_SIZE == 10
MEDIUM_SIZE == 12
LARGE_SIZE == 14

BaseLiteral ==
    ( "figure.dpi" :> PyInt(100) @@
      "savefig.dpi" :> PyInt(600) @@
      "figure.facecolor" :> PyStr("white") @@
      "axes.facecolor" :> PyStr("white") @@
      "font.size" :> PyInt(MEDIUM_SIZE) @@
      "axes.titlesize" :> PyInt(LARGE_SIZE) @@
      "axes.labelsize" :> PyInt(MEDIUM_SIZE) @@
      "xtick.labelsize" :> PyInt(SMALL_SIZE) @@
      "ytick.labelsize" :> PyInt(SMALL_SIZE) @@
      "legend.fontsize" :> PyInt(MEDIUM_SIZE) @@
      "figure.titlesize" :> PyInt(LARGE_SIZE) @@
      "lines.linewidth" :> PyFloat(15) @@
      "lines.markersize" :> PyInt(5) @@
      "patch.linewidth" :> PyFloat(5) @@
      "xtick.direction" :> PyStr("in") @@
      "ytick.direction" :> PyStr("in") @@
      "xtick.top" :> PyBool(TRUE) @@
      "xtick.bottom" :> PyBool(TRUE) @@
      "ytick.left" :> PyBool(TRUE) @@
      "ytick.right" :> PyBool(TRUE) @@
      "xtick.minor.visible" :> PyBool(TRUE) @@
      "ytick.minor.visible" :> PyBool(TRUE) @@
      "axes.grid" :> PyBool(FALSE) @@
      "grid.alpha" :> PyFloat(3) @@
      "axes.spines.top" :> PyBool(TRUE) @@
      "axes.spines.bottom" :> PyBool(TRUE) @@
      "axes.spines.left" :> PyBool(TRUE) @@
      "axes.spines.right" :> PyBool(TRUE) )

LatexLiteral ==
    ( "text.usetex" :> PyBool(TRUE) @@
      "text.latex.preamble" :> PyStr("\\usepackage{amsmath}") @@
      "font.family" :> PyStr("serif") @@
      "font.serif" :> PyList1("Computer Modern Roman") @@
      "mathtext.fontset" :> PyStr("cm") )

FallbackLiteral ==
    ( "font.family" :> PyStr("serif") @@
      "mathtext.fontset" :> PyStr("dejavuserif") )

\* A key of rcParams that the module never sets
OtherKey == "axes.linewidth"

RcKeys == (DOMAIN BaseLiteral) \cup (DOMAIN LatexLiteral) \cup {OtherKey}

\* The keys the importing program writes: the keys of both override sets, one
\* base key and the key the module never sets
HostKeys == (DOMAIN LatexLiteral) \cup {"figure.dpi", OtherKey}

\* Values the importing program may have stored in rcParams
HostValues == {PyBool(TRUE), PyBool(FALSE), PyStr("sans-serif")}

\* Value of a key the importing program has not touched: the library default
RcDefault == [kind |-> "default", num |-> 0, str |-> ""]

-----------------------------------------------------------------------------
(* The external lookup: subprocess.run(['which', 'latex'], ..., timeout=5) *)

Whitespace == {" ", "\n", "\t"}

\* Standard output of `which latex`, as a sequence of text chunks
WhichStdout == { <<"/usr/bin/latex", "\n">>, <<"/opt/texlive/bin/latex", "\n">> }

ReturnCodes == {0, 1, 2}

\* subprocess.run returns a CompletedProcess ...
Completed ==
    { [kind |-> "CompletedProcess", returncode |-> 0, stdout |-> o] : o \in WhichStdout }
    \cup
    { [kind |-> "CompletedProcess", returncode |-> c, stdout |-> <<>>] :
        c \in ReturnCodes \ {0} }

\* ... or raises: the lookup did not finish in time, `which` is not on the
\* search path, or `which` could not be executed for another reason
\* (an OSError that is not a FileNotFoundError, such as PermissionError)
RunRaises == {"TimeoutExpired", "FileNotFoundError", "PermissionError"}

Raised == { [kind |-> e, returncode |-> -1, stdout |-> <<>>] : e \in RunRaises }

RunOutcomes == Completed \cup Raised

NoResult == [kind |-> "none", returncode |-> -1, stdout |-> <<>>]

\* The exception classes of the except clause of check_latex_available
Caught == {"TimeoutExpired", "CalledProcessError", "FileNotFoundError"}

RECURSIVE lstrip(_)
lstrip(s) ==
    IF s # <<>> /\ Head(s) \in Whitespace THEN lstrip(Tail(s)) ELSE s

RECURSIVE rstrip(_)
rstrip(s) ==
    IF s # <<>> /\ s[Len(s)] \in Whitespace
    THEN rstrip(SubSeq(s, 1, Len(s) - 1))
    ELSE s

\* str.strip()
strip(s) == rstrip(lstrip(s))

\* Mutant of ProbeReturn: the exit code of the lookup is not looked at
ProbeReturn_AnyExit(r) ==
    IF r.kind = "CompletedProcess"
    THEN "True"
    ELSE IF r.kind \in {"TimeoutExpired", "CalledProcessError", "FileNotFoundError"}
         THEN "False" ELSE "raise"

\* What check_latex_available does with outcome r of the lookup:
\* the value it returns ("True", "False") or "raise" when r is an exception
\* that its except clause does not catch
ProbeReturn(r) ==
    IF r.kind = "CompletedProcess"
    THEN IF r.returncode = 0 THEN "True" ELSE "False"
    ELSE IF r.kind \in Caught THEN "False" ELSE "raise"

\* The lines check_latex_available prints for outcome r
ProbePrints(r) ==
    IF r.kind = "CompletedProcess" /\ r.returncode = 0
    THEN << <<"LaTeX found at: ">> \o strip(r.stdout) >>
    ELSE << >>

-----------------------------------------------------------------------------
(* The module body *)

UserWarning == "LaTeX not found. Falling back to standard matplotlib fonts."

Init ==
    /\ pc = "host"
    /\ rcParams = [k \in RcKeys |-> RcDefault]
    /\ base_params = EmptyDict
    /\ latex_params = EmptyDict
    /\ contourLevels = 0
    /\ colormap = ""
    /\ savefig_format = ""
    /\ SAVE_DIR = ""
    /\ result = NoResult
    /\ LATEX_AVAILABLE = FALSE
    /\ params = EmptyDict
    /\ stdout = << >>
    /\ warned = << >>
    /\ raised = ""
    /\ runs = 0
    /\ hostWrites = 0
    /\ loads = << >>

\* The importing program stores a value in rcParams (before or after a load)
HostSet ==
    /\ pc \in {"host", "done"}
    /\ hostWrites < MaxHostWrites
    /\ \E k \in HostKeys, v \in HostValues :
          rcParams' = [rcParams EXCEPT ![k] = v]
    /\ hostWrites' = hostWrites + 1
    /\ pc' = "host"
    /\ UNCHANGED <<base_params, latex_params, contourLevels, colormap,
                   savefig_format, SAVE_DIR, result, LATEX_AVAILABLE, params,
                   stdout, warned, raised, runs, loads>>

\* The importing program imports the module: its body starts executing in a
\* fresh namespace; rcParams and the process's output are kept
Import ==
    /\ pc \in {"host", "done", "raised"}
    /\ runs < MaxRuns
    /\ runs' = runs + 1
    /\ pc' = "define"
    /\ base_params' = EmptyDict
    /\ latex_params' = EmptyDict
    /\ contourLevels' = 0
    /\ colormap' = ""
    /\ savefig_format' = ""
    /\ SAVE_DIR' = ""
    /\ result' = NoResult
    /\ LATEX_AVAILABLE' = FALSE
    /\ params' = EmptyDict
    /\ raised' = ""
    /\ UNCHANGED <<rcParams, stdout, warned, hostWrites, loads>>

\* Mutant of Define: the default save format is 'pdf'
Define_PdfFormat ==
    /\ pc = "define"
    /\ base_params' = BaseLiteral
    /\ latex_params' = LatexLiteral
    /\ contourLevels' = 100
    /\ colormap' = "bwr"
    /\ savefig_format' = "pdf"
    /\ SAVE_DIR' = ""
    /\ pc' = "probe"
    /\ UNCHANGED <<rcParams, result, LATEX_AVAILABLE, params, stdout, warned,
                   raised, runs, hostWrites, loads>>

\* Lines 18-92: sizes, base_params, latex_params and the presets
Define ==
    /\ pc = "define"
    /\ base_params' = BaseLiteral
    /\ latex_params' = LatexLiteral
    /\ contourLevels' = 100
    /\ colormap' = "bwr"
    /\ savefig_format' = "png"
    /\ SAVE_DIR' = ""
    /\ pc' = "probe"
    /\ UNCHANGED <<rcParams, result, LATEX_AVAILABLE, params, stdout, warned,
                   raised, runs, hostWrites, loads>>

\* Lines 98-119: LATEX_AVAILABLE = check_latex_available()
Probe ==
    /\ pc = "probe"
    /\ \E r \in RunOutcomes :
          /\ result' = r
          /\ stdout' = stdout \o ProbePrints(r)
          /\ IF ProbeReturn(r) = "raise"
             THEN /\ raised' = r.kind
                  /\ pc' = "raised"
                  /\ UNCHANGED LATEX_AVAILABLE
             ELSE /\ LATEX_AVAILABLE' = (ProbeReturn(r) = "True")
                  /\ pc' = "warn"
                  /\ UNCHANGED raised
    /\ UNCHANGED <<rcParams, base_params, latex_params, contourLevels, colormap,
                   savefig_format, SAVE_DIR, params, warned, runs, hostWrites,
                   loads>>

\* Mutant of Warn: the warning is raised as an exception
Warn_AsError ==
    /\ pc = "warn"
    /\ IF ~LATEX_AVAILABLE
       THEN /\ stdout' = Append(stdout, <<"LaTeX not found in PATH">>)
            /\ warned' = Append(warned, UserWarning)
            /\ raised' = "UserWarning"
            /\ pc' = "raised"
       ELSE /\ pc' = "merge"
            /\ UNCHANGED <<stdout, warned, raised>>
    /\ UNCHANGED <<rcParams, base_params, latex_params, contourLevels, colormap,
                   savefig_format, SAVE_DIR, result, LATEX_AVAILABLE, params,
                   runs, hostWrites, loads>>

\* Lines 121-127: the message and the warning of the unavailable branch
Warn ==
    /\ pc = "warn"
    /\ IF ~LATEX_AVAILABLE
       THEN /\ stdout' = Append(stdout, <<"LaTeX not found in PATH">>)
            /\ warned' = Append(warned, UserWarning)
       ELSE UNCHANGED <<stdout, warned>>
    /\ pc' = "merge"
    /\ UNCHANGED <<rcParams, base_params, latex_params, contourLevels, colormap,
                   savefig_format, SAVE_DIR, result, LATEX_AVAILABLE, params,
                   raised, runs, hostWrites, loads>>

\* Mutant of Merge: the fallback keys are laid over the typeset mapping
Merge_LatexThenFallback ==
    /\ pc = "merge"
    /\ params' = IF LATEX_AVAILABLE
                 THEN DictMerge(base_params, latex_params)
                 ELSE DictMerge(DictMerge(base_params, latex_params), FallbackLiteral)
    /\ pc' = "summary"
    /\ UNCHANGED <<rcParams, base_params, latex_params, contourLevels, colormap,
                   savefig_format, SAVE_DIR, result, LATEX_AVAILABLE, stdout,
                   warned, raised, runs, hostWrites, loads>>

\* Mutant of Merge: the two branches are exchanged
Merge_Swapped ==
    /\ pc = "merge"
    /\ params' = IF ~LATEX_AVAILABLE
                 THEN DictMerge(base_params, latex_params)
                 ELSE DictMerge(base_params, FallbackLiteral)
    /\ pc' = "summary"
    /\ UNCHANGED <<rcParams, base_params, latex_params, contourLevels, colormap,
                   savefig_format, SAVE_DIR, result, LATEX_AVAILABLE, stdout,
                   warned, raised, runs, hostWrites, loads>>

\* Mutant of Merge: the overrides are merged into base_params in place
\* (base_params.update(...); params = base_params)
Merge_InPlace ==
    /\ pc = "merge"
    /\ params' = IF LATEX_AVAILABLE
                 THEN DictMerge(base_params, latex_params)
                 ELSE DictMerge(base_params, FallbackLiteral)
    /\ base_params' = params'
    /\ pc' = "summary"
    /\ UNCHANGED <<rcParams, latex_params, contourLevels, colormap,
                   savefig_format, SAVE_DIR, result, LATEX_AVAILABLE, stdout,
                   warned, raised, runs, hostWrites, loads>>

\* Lines 129-136: params
Merge ==
    /\ pc = "merge"
    /\ params' = IF LATEX_AVAILABLE
                 THEN DictMerge(base_params, latex_params)
                 ELSE DictMerge(base_params, FallbackLiteral)
    /\ pc' = "summary"
    /\ UNCHANGED <<rcParams, base_params, latex_params, contourLevels, colormap,
                   savefig_format, SAVE_DIR, result, LATEX_AVAILABLE, stdout,
                   warned, raised, runs, hostWrites, loads>>

\* Lines 144-148: the summary block
Summary ==
    /\ pc = "summary"
    /\ stdout' = stdout \o
          << <<"Scientific plotting configuration loaded">>,
             <<"   LaTeX support: ",
               IF LATEX_AVAILABLE THEN "Enabled" ELSE "Disabled">>,
             <<"   Default save format: ", savefig_format>>,
             <<"   Contour levels: ", ToString(contourLevels)>>,
             <<"   Colormap: ", colormap>> >>
    /\ pc' = "apply"
    /\ UNCHANGED <<rcParams, base_params, latex_params, contourLevels, colormap,
                   savefig_format, SAVE_DIR, result, LATEX_AVAILABLE, params,
                   warned, raised, runs, hostWrites, loads>>

\* Mutant of Apply: rcParams is reset to the library defaults before the update
Apply_ResetFirst ==
    /\ pc = "apply"
    /\ rcParams' = DictUpdate([k \in DOMAIN rcParams |-> RcDefault], params)
    /\ loads' = Append(loads, [flag |-> LATEX_AVAILABLE, params |-> params])
    /\ pc' = "done"
    /\ UNCHANGED <<base_params, latex_params, contourLevels, colormap,
                   savefig_format, SAVE_DIR, result, LATEX_AVAILABLE, params,
                   stdout, warned, raised, runs, hostWrites>>

\* Line 151: plt.rcParams.update(params); the import is then complete
Apply ==
    /\ pc = "apply"
    /\ rcParams' = DictUpdate(rcParams, params)
    /\ loads' = Append(loads, [flag |-> LATEX_AVAILABLE, params |-> params])
    /\ pc' = "done"
    /\ UNCHANGED <<base_params, latex_params, contourLevels, colormap,
                   savefig_format, SAVE_DIR, result, LATEX_AVAILABLE, params,
                   stdout, warned, raised, runs, hostWrites>>

\* One step of the execution of the module body
Load == Define \/ Probe \/ Warn \/ Merge \/ Summary \/ Apply

Next == HostSet \/ Import \/ Define \/ Probe \/ Warn \/ Merge \/ Summary \/ Apply

Spec == Init /\ [][Next]_vars

\* The interpreter runs the module body to its end: single-threaded,
\* synchronous execution, the lookup bounded by its timeout
FairSpec == Spec /\ WF_vars(Load)

-----------------------------------------------------------------------------
(* Positions of the interpreter *)

\* params is bound: the merge has run in the current execution of the body
ParamsBound == pc \in {"summary", "apply", "done"} \/ (pc = "host" /\ runs > 0)

\* A load has completed and nothing has happened since
JustLoaded == pc = "done"

\* A load has completed (the importing program may have gone on since)
Loaded == pc = "done" \/ (pc = "host" /\ runs > 0)

TypesetOnlyKeys == {"text.usetex", "text.latex.preamble", "font.serif"}
FallbackKeys == {"font.family", "mathtext.fontset"}
TypesetKeys == TypesetOnlyKeys \cup FallbackKeys

-----------------------------------------------------------------------------
(* C1: whenever LATEX_AVAILABLE is false, the merged mapping params has    *)
(* 'font.family' == 'serif' and 'mathtext.fontset' == 'dejavuserif' and    *)
(* holds none of the keys 'text.usetex', 'text.latex.preamble' and         *)
(* 'font.serif'.                                                           *)
C1_FallbackMerged ==
    (ParamsBound /\ ~LATEX_AVAILABLE) =>
        /\ FallbackKeys \subseteq DOMAIN params
        /\ params["font.family"] = PyStr("serif")
        /\ params["mathtext.fontset"] = PyStr("dejavuserif")
        /\ TypesetOnlyKeys \cap DOMAIN params = {}

C1_Witness ==
    /\ pc = "done"
    /\ ~LATEX_AVAILABLE
    /\ result.kind = "CompletedProcess"
    /\ result.returncode = 1

(* C2: whenever LATEX_AVAILABLE is true, params holds every key of         *)
(* latex_params with its literal value: 'text.usetex' True,                *)
(* 'text.latex.preamble' the amsmath preamble, 'font.family' 'serif',      *)
(* 'font.serif' ['Computer Modern Roman'], 'mathtext.fontset' 'cm'.        *)
C2_TypesetMerged ==
    (ParamsBound /\ LATEX_AVAILABLE) =>
        /\ TypesetKeys \subseteq DOMAIN params
        /\ DOMAIN latex_params = TypesetKeys
        /\ \A k \in TypesetKeys : params[k] = latex_params[k]
        /\ params["text.usetex"] = PyBool(TRUE)
        /\ params["text.latex.preamble"] = PyStr("\\usepackage{amsmath}")
        /\ params["font.family"] = PyStr("serif")
        /\ params["font.serif"] = PyList1("Computer Modern Roman")
        /\ params["mathtext.fontset"] = PyStr("cm")

C2_Witness ==
    /\ pc = "done"
    /\ LATEX_AVAILABLE
    /\ result.returncode = 0
    /\ "text.usetex" \in DOMAIN params

(* C3: in both branches the key set of params is the key set of            *)
(* base_params together with the keys of exactly one override set: the     *)
(* five latex_params keys when available, the two fallback keys when not.  *)
C3_KeySet ==
    ParamsBound =>
        /\ DOMAIN base_params \subseteq DOMAIN params
        /\ DOMAIN params =
              (DOMAIN base_params) \cup
              (IF LATEX_AVAILABLE THEN TypesetKeys ELSE FallbackKeys)
        /\ \A k \in DOMAIN base_params : params[k] = base_params[k]
        /\ \A k \in (DOMAIN params) \ (DOMAIN base_params) :
              params[k] = IF LATEX_AVAILABLE THEN latex_params[k] ELSE FallbackLiteral[k]
        /\ Cardinality(DOMAIN base_params) = 28
        /\ Cardinality(DOMAIN params) = IF LATEX_AVAILABLE THEN 33 ELSE 30

C3_Witness ==
    /\ pc = "done"
    /\ Len(loads) = 2
    /\ DOMAIN loads[1].params # DOMAIN loads[2].params

(* C4: any failure of the lookup makes check_latex_available return false, *)
(* and no error ever propagates out of check_latex_available.              *)
C4_ProbeNeverRaises ==
    /\ pc # "raised"
    /\ raised = ""
    /\ (pc = "warn" /\ ~(result.kind = "CompletedProcess" /\ result.returncode = 0))
          => ~LATEX_AVAILABLE

(* C5: check_latex_available returns true exactly when the lookup          *)
(* completes with exit code 0, false for a non-zero exit code or a         *)
(* timeout; it prints the status line with the resolved path on the true   *)
(* outcome only and prints nothing on the false outcome.                   *)
C5_ProbeResult ==
    [][pc = "probe" =>
        LET r == result'
            found == r.kind = "CompletedProcess" /\ r.returncode = 0
            returnedTrue == pc' = "warn" /\ LATEX_AVAILABLE'
            returnedFalse == pc' = "warn" /\ ~LATEX_AVAILABLE'
        IN /\ returnedTrue <=> found
           /\ (r.kind = "CompletedProcess" /\ r.returncode # 0) => returnedFalse
           /\ r.kind = "TimeoutExpired" => returnedFalse
           /\ returnedTrue =>
                 stdout' = Append(stdout, <<"LaTeX found at: ", r.stdout[1]>>)
           /\ ~returnedTrue => stdout' = stdout]_vars

C5_Witness ==
    /\ pc = "warn"
    /\ LATEX_AVAILABLE
    /\ Len(stdout) > 0
    /\ stdout[Len(stdout)] = <<"LaTeX found at: ", "/opt/texlive/bin/latex">>

(* C6: when the load completes, rcParams holds params[k] for every key k   *)
(* of params, whatever rcParams held for k before, in either branch.       *)
C6_Applied ==
    JustLoaded =>
        \A k \in DOMAIN params : k \in DOMAIN rcParams /\ rcParams[k] = params[k]

C6_Witness ==
    /\ JustLoaded
    /\ Len(loads) = 2
    /\ loads[1].flag
    /\ ~loads[2].flag
    /\ rcParams["mathtext.fontset"] = PyStr("dejavuserif")

(* C7: the warning is issued in the unavailable branch and only there, it  *)
(* is not fatal, and an unavailable load always goes on to build the       *)
(* fallback mapping and to apply it to rcParams.                           *)
C7_GracefulFallback ==
    /\ [][pc = "warn" =>
            /\ pc' = "merge"
            /\ raised' = ""
            /\ IF LATEX_AVAILABLE
               THEN warned' = warned
               ELSE warned' = Append(warned, UserWarning)]_vars
    /\ [][pc # "warn" => warned' = warned]_vars
    /\ (pc = "warn" /\ ~LATEX_AVAILABLE) ~>
          /\ pc = "done"
          /\ ~LATEX_AVAILABLE
          /\ DOMAIN params = (DOMAIN BaseLiteral) \cup FallbackKeys
          /\ params["mathtext.fontset"] = PyStr("dejavuserif")
          /\ \A k \in DOMAIN params : rcParams[k] = params[k]

C7_Witness ==
    /\ pc = "done"
    /\ ~LATEX_AVAILABLE
    /\ warned # << >>
    /\ rcParams["font.family"] = PyStr("serif")
    /\ result.kind = "TimeoutExpired"

(* C8: two loads with the same flag yield the same merged mapping,         *)
(* whatever rcParams held before each, and base_params and latex_params    *)
(* are left as they were defined.                                          *)
C8_PureOfFlag ==
    /\ \A i, j \in DOMAIN loads :
          loads[i].flag = loads[j].flag => loads[i].params = loads[j].params
    /\ (pc \in {"probe", "warn", "merge", "summary", "apply", "raised"} \/ Loaded) =>
          /\ base_params = BaseLiteral
          /\ latex_params = LatexLiteral

C8_Witness ==
    /\ Len(loads) = 2
    /\ loads[1].flag = loads[2].flag
    /\ hostWrites = 1
    /\ pc = "done"

(* C9: after a load in either branch contourLevels == 100,                 *)
(* colormap == 'bwr', savefig_format == 'png' and SAVE_DIR == ''.          *)
C9_Presets ==
    Loaded =>
        /\ contourLevels = 100
        /\ colormap = "bwr"
        /\ savefig_format = "png"
        /\ SAVE_DIR = ""

C9_Witness ==
    /\ Loaded
    /\ Len(loads) = 2
    /\ loads[1].flag # loads[2].flag
    /\ contourLevels = 100

(* C10: applying the configuration leaves every key of rcParams that is    *)
(* not a key of params unchanged; a load in the unavailable branch leaves  *)
(* 'text.usetex', 'text.latex.preamble' and 'font.serif' as they were.     *)
C10_Frame ==
    [][(pc \in {"define", "probe", "warn", "merge", "summary", "apply"}) =>
        /\ DOMAIN rcParams' = DOMAIN rcParams
        /\ \A k \in DOMAIN rcParams :
              (pc # "apply" \/ k \notin DOMAIN params) => rcParams'[k] = rcParams[k]
        /\ (pc = "apply" /\ ~LATEX_AVAILABLE) =>
              (\A k \in TypesetOnlyKeys : rcParams'[k] = rcParams[k])]_vars

C10_Witness ==
    /\ pc = "done"
    /\ ~LATEX_AVAILABLE
    /\ rcParams["text.usetex"] = PyBool(TRUE)
    /\ rcParams["mathtext.fontset"] = PyStr("dejavuserif")

====
